---- MODULE Spec2Model ----
(***************************************************************************)
(* A model of video_to_bilingual_gui.py: the translation of an ordered     *)
(* list of recognised segments (batched gpt-4o-mini backend with a         *)
(* per-segment fallback, or the sequential DeepL backend) and the writing  *)
(* of the bilingual SRT file.                                              *)
(*                                                                         *)
(* A Python str is modelled as a sequence of one-character tokens, so      *)
(* len(), strip() and concatenation are the sequence operations.  The      *)
(* fixed marker strings of the program are one token each.  Times are      *)
(* whole milliseconds.  Python's 0-based index i is kept 0-based; the      *)
(* element texts[i] of the program is texts[i + 1] here.                   *)
(***************************************************************************)
EXTENDS Integers, Sequences, FiniteSets, TLC

(*************************** bounds of the model ***************************)
MaxSegs == 2            \* segments one recognition yields (pipeline)
MaxTextLen == 2         \* characters in one segment text
MaxBudget == 1          \* small character budgets 0..MaxBudget, beside 1800/2000
MaxPlanLen == 22        \* texts handed to the chunk planner alone
PatLen == 3             \* period of the text pattern of a long planner input
SegStep == 3661500      \* ms between the starts of consecutive segments
SegDur == 1200          \* ms one segment lasts
MaxStarts == 2          \* start commands the interactive thread issues
MaxHours == 100         \* the largest hour count a stamped time has

(**************************** program constants ****************************)
MaxBatchCount == 20     \* len(chunk_texts) < 20
retries == 3            \* _translate_single_retry(text, retries=3, ...)
deepl_retries == 3      \* translate_with_deepl_batch(..., retries=3, ...)
default_max_batch_chars == 2000
call_max_batch_chars == 1800
default_maximum == 100  \* ttk.Progressbar's maximum before set_progress_max

(******************************** strings **********************************)
Letters(k) == [q \in 1..k |-> "a"]

SetMin(S) == CHOOSE x \in S : \A y \in S : x <= y
SetMax(S) == CHOOSE x \in S : \A y \in S : y <= x

\* str.strip(): leading and trailing whitespace removed
strip(s) ==
    LET keep == {p \in 1..Len(s) : s[p] # " "}
    IN  IF keep = {} THEN <<>> ELSE SubSeq(s, SetMin(keep), SetMax(keep))

\* the marker strings of lines 207/283/400, 218/270 and 189, one token each
MarkFailed == <<"[FAILED]">>
MarkNoOpenAI == <<"[NO-OPENAI-KEY]">>
MarkNoDeepL == <<"[NO-DEEPL]">>

\* the failure marker of line 283 (and 207) + text
failure_result(text) == MarkFailed \o text

(************************ the translation service **************************)
(* A response of the service is an exception, a message without content,   *)
(* or a message with a content string.                                     *)
Raise == [kind |-> "raise", content |-> <<>>]
NoContent == [kind |-> "none", content |-> <<>>]
Text(c) == [kind |-> "text", content |-> c]

\* JSON string literals a reply list is made of: the q-th is ElemToks[q]
ElemToks == <<"r1", "r2", "r3", "r4", "r5", "r6", "r7", "r8">>
ElemSet == {ElemToks[q] : q \in 1..Len(ElemToks)}
\* "o" is a JSON object literal, "x" a word of prose
ValueToks == ElemSet \cup {"o"}

JsonList(k) == <<"[">> \o [q \in 1..k |-> ElemToks[q]] \o <<"]">>

\* contents the service may send for a batch of k texts
BatchContents(k) ==
    {JsonList(n) : n \in {m \in {k - 1, k, k + 1} : m >= 0}}
        \cup {<<" ", "x">> \o JsonList(k) \o <<" ">>,
              JsonList(k) \o <<"x">>,
              <<"x">>, <<"o">>}

BatchResponses(k) == {Raise, NoContent} \cup {Text(c) : c \in BatchContents(k)}

\* the translation the service gives for one text, and a blank answer
Zh(text) == <<"zh">> \o text
SingleResponses(text) == {Raise, NoContent, Text(<<" ">> \o Zh(text)), Text(<<" ">>)}
DeeplResponses(text) == {Raise, Text(Zh(text)), Text(<<>>)}

\* what a response carries: the number of elements of the list its content
\* ends with (prose before it, blanks after it), or -1 when there is none
ListLenIn(c) ==
    LET fits == {k \in 0..Len(c) :
                    \E p \in 1..Len(c), q \in 1..Len(c) :
                        /\ q - p - 1 = k
                        /\ c[p] = "["
                        /\ c[q] = "]"
                        /\ \A m \in (p + 1)..(q - 1) : c[m] \in ValueToks
                        /\ \A m \in (q + 1)..Len(c) : c[m] = " "}
    IN  IF fits = {} THEN -1 ELSE CHOOSE k \in fits : TRUE
ReplyLen(r) == IF r.kind = "text" THEN ListLenIn(r.content) ELSE -1

(****************************** JSON parsing *******************************)
ParseError == [ok |-> FALSE, isList |-> FALSE, items |-> <<>>]

\* json.loads on a token string: a scalar/object, or a flat list of values
json_loads(s) ==
    IF Len(s) = 1 /\ s[1] \in ValueToks
    THEN [ok |-> TRUE, isList |-> FALSE, items |-> <<>>]
    ELSE IF /\ Len(s) >= 2
            /\ s[1] = "["
            /\ s[Len(s)] = "]"
            /\ \A p \in 2..(Len(s) - 1) : s[p] \in ValueToks
         THEN [ok |-> TRUE, isList |-> TRUE,
               items |-> [p \in 1..(Len(s) - 2) |-> <<s[p + 1]>>]]
         ELSE ParseError

\* out.rfind('['): 0-based index of the last "[", or -1
rfind_bracket(out) ==
    LET at == {p \in 1..Len(out) : out[p] = "["}
    IN  IF at = {} THEN -1 ELSE SetMax(at) - 1

\* lines 248-256: json.loads(out), else json.loads(out[out.rfind('['):]).
\* Without a "[", out[-1:] is one character, which is no JSON list.
parse_reply(out) ==
    LET direct == json_loads(out)
        jstart == rfind_bracket(out)
    IN  IF direct.ok THEN direct
        ELSE IF jstart = -1 THEN ParseError
        ELSE json_loads(SubSeq(out, jstart + 1, Len(out)))

accepts_any_list(parsed, chunk) == parsed.ok /\ parsed.isList
accepts_at_most(parsed, chunk) ==
    parsed.ok /\ parsed.isList /\ Len(parsed.items) <= Len(chunk)
\* isinstance(parsed, list) and len(parsed) == len(chunk_texts)
accepts(parsed, chunk) ==
    parsed.ok /\ parsed.isList /\ Len(parsed.items) = Len(chunk)

\* lines 237-256 up to the test of line 257: the parsed reply of a response
reply_of(r) ==
    IF r.kind = "text" THEN parse_reply(strip(r.content)) ELSE ParseError

(***************************** chunk planning ******************************)
RECURSIVE pack_chunk(_, _, _, _, _)
\* the inner while loop of lines 225-228
pack_chunk(ts, i0, chunk, chunk_chars, budget) ==
    IF /\ i0 < Len(ts)
       /\ chunk_chars + Len(ts[i0 + 1]) <= budget
       /\ Len(chunk) < MaxBatchCount
    THEN pack_chunk(ts, i0 + 1, Append(chunk, ts[i0 + 1]),
                    chunk_chars + Len(ts[i0 + 1]), budget)
    ELSE [i |-> i0, chunk_texts |-> chunk]

next_chunk_drop(ts, i0, budget) ==
    LET p == pack_chunk(ts, i0, <<>>, 0, budget)
    IN  IF p.chunk_texts = <<>>
        THEN pack_chunk(ts, i0 + 1, <<>>, 0, budget)
        ELSE p

next_chunk_over(ts, i0, budget) ==
    LET p == pack_chunk(ts, i0, <<>>, 0, budget + 1)
    IN  IF p.chunk_texts = <<>>
        THEN [i |-> p.i + 1, chunk_texts |-> <<ts[p.i + 1]>>]
        ELSE p

\* lines 223-230: one chunk, starting at index i0 < len(texts)
next_chunk(ts, i0, budget) ==
    LET p == pack_chunk(ts, i0, <<>>, 0, budget)
    IN  IF p.chunk_texts = <<>>
        THEN [i |-> p.i + 1, chunk_texts |-> <<ts[p.i + 1]>>]
        ELSE p

(******************************* timestamps ********************************)
DigitToks == <<"0", "1", "2", "3", "4", "5", "6", "7", "8", "9">>

RECURSIVE Decimal(_)
\* the decimal digits of a natural number
Decimal(n) ==
    IF n < 10 THEN <<DigitToks[n + 1]>>
    ELSE Decimal(n \div 10) \o <<DigitToks[(n % 10) + 1]>>

\* the zero padding of the format specs 02d and 06.3f
ZeroPad(s, w) == IF Len(s) >= w THEN s ELSE [q \in 1..(w - Len(s)) |-> "0"] \o s

format_timestamp_period(ms) ==
    LET h == ms \div 3600000
        m == (ms % 3600000) \div 60000
        s == ms % 60000
    IN  ZeroPad(Decimal(h), 2) \o <<":">> \o ZeroPad(Decimal(m), 2) \o <<":">>
            \o ZeroPad(Decimal(s \div 1000) \o <<".">> \o ZeroPad(Decimal(s % 1000), 3), 6)

\* lines 288-292, for a time of ms whole milliseconds
format_timestamp(ms) ==
    LET h == ms \div 3600000
        m == (ms % 3600000) \div 60000
        s == ms % 60000
        sec == ZeroPad(Decimal(s \div 1000) \o <<".">>
                           \o ZeroPad(Decimal(s % 1000), 3), 6)
        str == ZeroPad(Decimal(h), 2) \o <<":">> \o ZeroPad(Decimal(m), 2)
                   \o <<":">> \o sec
    IN  [q \in 1..Len(str) |-> IF str[q] = "." THEN "," ELSE str[q]]

(******************************** segments *********************************)
\* the text of a recognised segment with k letters, as Whisper pads it
RawText(k) ==
    IF k = 0 THEN <<" ">>
    ELSE IF k % 2 = 1 THEN <<" ">> \o Letters(k)
    ELSE Letters(k) \o <<" ">>

\* the segment list of a recognition whose texts have the lengths ks
SegmentsOf(ks) ==
    [q \in 1..Len(ks) |->
        [start |-> (q - 1) * SegStep,
         end |-> (q - 1) * SegStep + SegDur,
         text |-> RawText(ks[q])]]

LenLists(n) == [1..n -> 0..MaxTextLen]
SegmentLists == UNION {{SegmentsOf(ks) : ks \in LenLists(n)} : n \in 0..MaxSegs}

\* line 381: originals = [s.text.strip() for s in segments]
originals_of(segs) == [q \in 1..Len(segs) |-> strip(segs[q].text)]

\* the character budgets a translation is run with
Budgets == (0..MaxBudget) \cup {call_max_batch_chars}

(********************************* state ***********************************)
VARIABLES
    pc,                 \* where the worker (or the function under test) stands
    engine,             \* engine_var.get()
    openai_client,      \* TRUE when the global client is set
    segments,           \* list(segments) of line 369
    texts,              \* the texts argument of the translation function
    max_batch_chars,    \* the max_batch_chars argument
    i,                  \* i of translate_batch_with_context_gpt / loop position
    chunk_texts,        \* chunk_texts of the current batch
    results,            \* results of the running translation function
    j,                  \* texts of the current chunk the fallback has done
    attempt,            \* attempt of the running per-segment retry loop
    translations,       \* translations of process_video_flow
    progress_value,     \* progress_bar['value']
    progress_maximum,   \* progress_bar['maximum']
    out_exists,         \* whether the output file exists
    out_cues,           \* the cue blocks the output file holds
    calls,              \* translation-service requests made so far
    batches,            \* log: the batches formed, in order
    one_calls,          \* log: the per-segment translations finished, in order
    failure,            \* what made the run fail, "" while it has not
    progress_calls,     \* log: calls of update_translation_progress made
    workers             \* the threads start_thread_for_video has started

vars == <<pc, engine, openai_client, segments, texts, max_batch_chars, i,
          chunk_texts, results, j, attempt, translations, progress_value,
          progress_maximum, out_exists, out_cues, calls, batches,
          one_calls, failure, progress_calls, workers>>

Engines == {"DeepL", "ChatGPT"}

\* everything but pc and the named inputs, as it is before a run
Fresh ==
    /\ i = 0
    /\ chunk_texts = <<>>
    /\ results = <<>>
    /\ j = 0
    /\ attempt = 0
    /\ progress_value = 0
    /\ out_exists = FALSE
    /\ out_cues = <<>>
    /\ calls = 0
    /\ batches = <<>>
    /\ one_calls = <<>>
    /\ failure = ""
    /\ progress_calls = 0
    /\ workers = <<>>

\* the program after the window is built and before a video is chosen
Init ==
    /\ pc = "idle"
    /\ engine = "DeepL"
    /\ openai_client \in BOOLEAN
    /\ segments = <<>>
    /\ texts = <<>>
    /\ max_batch_chars = call_max_batch_chars
    /\ translations = <<>>
    /\ progress_maximum = default_maximum
    /\ Fresh

(******************************* operations ********************************)
Min2(a, b) == IF a <= b THEN a ELSE b

progress_of_remaining(done_count, maximum) == maximum - done_count
progress_step_one(done_count, maximum) == Min2(progress_value + 1, maximum)
progress_unless_fallback(done_count, maximum) ==
    IF pc = "gpt_fallback" THEN progress_value ELSE Min2(done_count, maximum)
\* lines 321-322: progress_bar['value'] = min(done_count, progress_bar['maximum'])
clamp_progress(done_count, maximum) == Min2(done_count, maximum)

extend_front(res, items) == items \o res
\* line 258: results.extend(parsed)
extend(res, items) == res \o items

rejected_pc_uncaught == "failed"
\* lines 259-264: a rejected reply or an exception of the batch request is
\* handled inside the loop, by the per-segment fallback
rejected_pc == "gpt_fallback"

AfterBatch_break(iNew) ==
    IF iNew < Len(texts) /\ pc # "gpt_fallback" THEN "gpt_loop" ELSE "returned"
\* the while condition of line 222, after a batch: go round again or return
AfterBatch(iNew) == IF iNew < Len(texts) THEN "gpt_loop" ELSE "returned"

single_step_two_tries(r, text, att) ==
    IF r.kind = "text"
    THEN [returned |-> TRUE, ret |-> strip(r.content), attempt |-> att]
    ELSE IF att + 1 < retries - 1
         THEN [returned |-> FALSE, ret |-> <<>>, attempt |-> att + 1]
         ELSE [returned |-> TRUE, ret |-> failure_result(text), attempt |-> att + 1]

single_step_four_tries(r, text, att) ==
    IF r.kind = "text"
    THEN [returned |-> TRUE, ret |-> strip(r.content), attempt |-> att]
    ELSE IF att + 1 < retries + 1
         THEN [returned |-> FALSE, ret |-> <<>>, attempt |-> att + 1]
         ELSE [returned |-> TRUE, ret |-> failure_result(text), attempt |-> att + 1]

\* lines 272-283: one pass of the retry loop of _translate_single_retry, the
\* request answered by r after att failed requests
single_step(r, text, att) ==
    IF r.kind = "text"
    THEN [returned |-> TRUE, ret |-> strip(r.content), attempt |-> att]
    ELSE IF att + 1 < retries
         THEN [returned |-> FALSE, ret |-> <<>>, attempt |-> att + 1]
         ELSE [returned |-> TRUE, ret |-> failure_result(text), attempt |-> att + 1]

\* lines 197-207: one pass of the retry loop of translate_with_deepl_batch
deepl_step(r, text, att) ==
    IF r.kind = "text"
    THEN [returned |-> TRUE, ret |-> r.content, attempt |-> att]
    ELSE IF att + 1 < deepl_retries
         THEN [returned |-> FALSE, ret |-> <<>>, attempt |-> att + 1]
         ELSE [returned |-> TRUE, ret |-> failure_result(text), attempt |-> att + 1]

\* the entry of the log one_calls: the text, what was returned, the requests
\* made for it, and whether every one of them failed
OneCall(text, o, r) ==
    [text |-> text, ret |-> o.ret,
     calls |-> IF r.kind = "text" THEN o.attempt + 1 ELSE o.attempt,
     failed |-> r.kind # "text"]

pad_translations_none(trs, total) == trs
\* lines 399-400
pad_translations(trs, total) ==
    IF Len(trs) < total
    THEN trs \o [q \in 1..(total - Len(trs)) |-> MarkFailed]
    ELSE trs

\* zip(segments, translations) stops with the shorter list
zip_len(segs, trs) == Min2(Len(segs), Len(trs))

\* lines 299-302: the block written for cue idx
cue_of(idx, seg, zh) ==
    [idx |-> idx,
     start |-> format_timestamp(seg.start),
     end |-> format_timestamp(seg.end),
     orig |-> strip(seg.text),
     zh |-> zh]

is_empty_never(segs) == FALSE
\* line 377: if not segments
is_empty(segs) == segs = <<>>

(******************************** actions **********************************)
\* lines 331-343: the engine is read and its client initialised
Configure ==
    /\ pc = "idle"
    /\ \E eng \in Engines, ok \in BOOLEAN :
        /\ engine' = eng
        /\ pc' = IF ok THEN "prepare" ELSE "unconfigured"
        /\ openai_client' = IF eng = "ChatGPT" /\ ok THEN TRUE ELSE openai_client
    /\ UNCHANGED <<segments, texts, max_batch_chars, i, chunk_texts, results, j,
                   attempt, translations, progress_value, progress_maximum,
                   out_exists, out_cues, calls, batches, one_calls,
                   failure>>
    /\ UNCHANGED <<progress_calls, workers>>

\* lines 346-385: model and audio are prepared and the speech recognised
Recognize ==
    /\ pc = "prepare"
    /\ \/ /\ pc' = "aborted"        \* no model chosen, load or ffmpeg failure
          /\ UNCHANGED <<segments, texts, progress_value, progress_maximum, failure>>
       \/ /\ pc' = "failed"         \* transcribe raises: the handler of line 409
          /\ failure' = "recognition"
          /\ UNCHANGED <<segments, texts, progress_value, progress_maximum>>
       \/ \E segs \in SegmentLists :
            /\ segments' = segs
            /\ progress_value' = 0
            /\ failure' = failure
            /\ IF is_empty(segs)
               THEN /\ pc' = "empty"
                    /\ UNCHANGED <<texts, progress_maximum>>
               ELSE /\ pc' = "recognized"
                    /\ texts' = originals_of(segs)
                    /\ progress_maximum' = Len(segs)
    /\ UNCHANGED <<engine, openai_client, max_batch_chars, i, chunk_texts, results,
                   j, attempt, translations, out_exists, out_cues, calls,
                   batches, one_calls>>
    /\ UNCHANGED <<progress_calls, workers>>

\* lines 388-397 with the entry of the translation function (187-193, 217-221).
\* init_openai_client() has just set openai_client when line 397 is reached,
\* so the tests of lines 217 and 269 (openai_client is None) do not fire in a
\* run; init_deepl_client() is called again at line 187 and may fail there.
\* The budget of line 397 is 1800; the small ones stand for texts that are
\* long against it.
StartTranslation ==
    /\ pc = "recognized"
    /\ \/ /\ engine = "DeepL"
          /\ \E ok \in BOOLEAN :    \* init_deepl_client() of line 187
               IF ok
               THEN /\ pc' = IF Len(texts) = 0 THEN "returned" ELSE "deepl_loop"
                    /\ UNCHANGED <<results, translations>>
               ELSE /\ pc' = "returned"
                    /\ results' = [q \in 1..Len(texts) |-> MarkNoDeepL]
                    /\ translations' = results'
          /\ UNCHANGED <<openai_client, max_batch_chars>>
       \/ /\ engine = "ChatGPT"
          /\ \E ok \in BOOLEAN, budget \in Budgets :   \* init_openai_client(), 392
               IF ok
               THEN /\ openai_client' = TRUE
                    /\ max_batch_chars' = budget
                    /\ pc' = AfterBatch(0)
                    /\ UNCHANGED <<results, translations>>
               ELSE /\ pc' = "unconfigured"
                    /\ UNCHANGED <<openai_client, max_batch_chars, results, translations>>
    /\ UNCHANGED <<engine, segments, texts, i, chunk_texts, j, attempt,
                   progress_value, progress_maximum, out_exists, out_cues, calls,
                   batches, one_calls, failure>>
    /\ UNCHANGED <<progress_calls, workers>>

\* lines 222-265 for an accepted batch, 222-257 for a rejected one: a chunk is
\* formed, sent as one request, and the reply validated
GptBatch ==
    /\ pc = "gpt_loop"
    /\ i < Len(texts)
    /\ LET c == next_chunk(texts, i, max_batch_chars)
       IN  \E r \in BatchResponses(Len(c.chunk_texts)) :
             LET parsed == reply_of(r)
                 ok == accepts(parsed, c.chunk_texts)
             IN  /\ i' = c.i
                 /\ chunk_texts' = c.chunk_texts
                 /\ calls' = calls + 1
                 /\ batches' = Append(batches,
                        [first |-> i, texts |-> c.chunk_texts, accepted |-> ok,
                         listed |-> ReplyLen(r) = Len(c.chunk_texts)])
                 /\ IF ok
                    THEN /\ results' = extend(results, parsed.items)
                         /\ progress_value' =
                                clamp_progress(Len(results'), progress_maximum)
                         /\ progress_calls' = progress_calls + 1
                         /\ pc' = AfterBatch(c.i)
                         /\ translations' =
                                IF AfterBatch(c.i) = "returned" THEN results'
                                ELSE translations
                    ELSE /\ pc' = rejected_pc
                         /\ UNCHANGED <<results, progress_value, progress_calls,
                                        translations>>
    /\ j' = 0
    /\ attempt' = 0
    /\ UNCHANGED <<engine, openai_client, segments, texts, max_batch_chars,
                   progress_maximum, out_exists, out_cues, one_calls, failure>>
    /\ UNCHANGED workers

\* lines 260-261 / 263-264 with 268-283: one request of the per-segment
\* fallback, and line 265 after the last text of the chunk
GptSingleCall ==
    /\ pc = "gpt_fallback"
    /\ LET s == chunk_texts[j + 1]
       IN  \E r \in SingleResponses(s) :
             LET o == single_step(r, s, attempt)
                 last == j + 1 = Len(chunk_texts)
             IN  /\ calls' = calls + 1
                 /\ IF o.returned
                    THEN /\ results' = Append(results, o.ret)
                         /\ one_calls' = Append(one_calls, OneCall(s, o, r))
                         /\ j' = j + 1
                         /\ attempt' = 0
                         /\ pc' = IF last THEN AfterBatch(i) ELSE pc
                         /\ progress_value' =
                                IF last
                                THEN clamp_progress(Len(results'), progress_maximum)
                                ELSE progress_value
                         /\ progress_calls' =
                                IF last THEN progress_calls + 1 ELSE progress_calls
                         /\ translations' =
                                IF last /\ AfterBatch(i) = "returned" THEN results'
                                ELSE translations
                    ELSE /\ attempt' = o.attempt
                         /\ UNCHANGED <<results, one_calls, j, pc, progress_value,
                                        progress_calls, translations>>
    /\ UNCHANGED <<engine, openai_client, segments, texts, max_batch_chars, i,
                   chunk_texts, progress_maximum, out_exists, out_cues, batches, failure>>
    /\ UNCHANGED workers

\* lines 194-212: one request of the sequential backend
DeeplCall ==
    /\ pc = "deepl_loop"
    /\ LET t == texts[i + 1]
       IN  \E r \in DeeplResponses(t) :
             LET o == deepl_step(r, t, attempt)
                 last == i + 1 = Len(texts)
             IN  /\ calls' = calls + 1
                 /\ IF o.returned
                    THEN /\ results' = Append(results, o.ret)
                         /\ one_calls' = Append(one_calls, OneCall(t, o, r))
                         /\ i' = i + 1
                         /\ attempt' = 0
                         /\ progress_value' =
                                clamp_progress(Len(results'), progress_maximum)
                         /\ progress_calls' = progress_calls + 1
                         /\ pc' = IF last THEN "returned" ELSE pc
                         /\ translations' = IF last THEN results' ELSE translations
                    ELSE /\ attempt' = o.attempt
                         /\ UNCHANGED <<results, one_calls, i, pc, progress_value,
                                        progress_calls, translations>>
    /\ UNCHANGED <<engine, openai_client, segments, texts, max_batch_chars,
                   chunk_texts, j, progress_maximum, out_exists, out_cues,
                   batches, failure>>
    /\ UNCHANGED workers

\* lines 399-403 and 294-297: the translations are padded and the file opened
Assemble ==
    /\ pc = "returned"
    /\ translations' = pad_translations(translations, Len(texts))
    /\ \/ /\ out_exists' = TRUE
          /\ out_cues' = <<>>
          /\ pc' = "write"
          /\ failure' = failure
       \/ /\ pc' = "failed"         \* open() raises
          /\ failure' = "write"
          /\ UNCHANGED <<out_exists, out_cues>>
    /\ UNCHANGED <<engine, openai_client, segments, texts, max_batch_chars, i,
                   chunk_texts, results, j, attempt, progress_value,
                   progress_maximum, calls, batches, one_calls>>
    /\ UNCHANGED <<progress_calls, workers>>

\* lines 298-302: one cue block is written; a failing write leaves what had
\* reached the file
WriteCue ==
    /\ pc = "write"
    /\ Len(out_cues) < zip_len(segments, translations)
    /\ LET idx == Len(out_cues) + 1
       IN  \/ /\ out_cues' = Append(out_cues,
                                    cue_of(idx, segments[idx], translations[idx]))
              /\ UNCHANGED <<pc, failure>>
           \/ /\ \E kept \in 0..Len(out_cues) : out_cues' = SubSeq(out_cues, 1, kept)
              /\ pc' = "failed"
              /\ failure' = "write"
    /\ UNCHANGED <<engine, openai_client, segments, texts, max_batch_chars, i,
                   chunk_texts, results, j, attempt, translations, progress_value,
                   progress_maximum, out_exists, calls, batches,
                   one_calls>>
    /\ UNCHANGED <<progress_calls, workers>>

\* lines 302-407: the loop ends, the file is closed, the bar filled
Finish ==
    /\ pc = "write"
    /\ Len(out_cues) = zip_len(segments, translations)
    /\ progress_value' = progress_maximum
    /\ pc' = "done"
    /\ UNCHANGED <<engine, openai_client, segments, texts, max_batch_chars, i,
                   chunk_texts, results, j, attempt, translations,
                   progress_maximum, out_exists, out_cues, calls, batches, one_calls, failure>>
    /\ UNCHANGED <<progress_calls, workers>>

Next ==
    \/ Configure
    \/ Recognize
    \/ StartTranslation
    \/ GptBatch
    \/ GptSingleCall
    \/ DeeplCall
    \/ Assemble
    \/ WriteCue
    \/ Finish

\* one run of process_video_flow
Spec == Init /\ [][Next]_vars

\* the worker thread keeps running and every request returns or raises
FairSpec == Spec /\ WF_vars(Next)

(************************* the chunk planner alone *************************)
PlanTexts == {Letters(k) : k \in 0..MaxTextLen}

\* lists of up to MaxPlanLen texts that repeat a pattern of PatLen texts
PlanInputs ==
    UNION {{[q \in 1..n |-> pat[((q - 1) % PatLen) + 1]] :
                pat \in [1..PatLen -> PlanTexts]} : n \in 0..MaxPlanLen}

PlanBudgets == (0..MaxBudget) \cup {call_max_batch_chars, default_max_batch_chars}

\* translate_batch_with_context_gpt called with any texts and any budget
PlanInit ==
    /\ pc = "plan"
    /\ engine = "ChatGPT"
    /\ openai_client = TRUE
    /\ segments = <<>>
    /\ texts \in PlanInputs
    /\ max_batch_chars \in PlanBudgets
    /\ translations = <<>>
    /\ progress_maximum = default_maximum
    /\ Fresh

\* lines 222-230: the next chunk is formed (the request it is sent with is
\* left out)
PlanChunk ==
    /\ pc = "plan"
    /\ i < Len(texts)
    /\ LET c == next_chunk(texts, i, max_batch_chars)
       IN  /\ i' = c.i
           /\ chunk_texts' = c.chunk_texts
           /\ batches' = Append(batches,
                  [first |-> i, texts |-> c.chunk_texts, accepted |-> FALSE,
                   listed |-> FALSE])
    /\ UNCHANGED <<pc, engine, openai_client, segments, texts, max_batch_chars,
                   results, j, attempt, translations, progress_value,
                   progress_maximum, out_exists, out_cues, calls, one_calls,
                   failure>>
    /\ UNCHANGED <<progress_calls, workers>>

\* line 222: the loop ends when i reaches n
PlanDone ==
    /\ pc = "plan"
    /\ ~(i < Len(texts))
    /\ pc' = "planned"
    /\ UNCHANGED <<engine, openai_client, segments, texts, max_batch_chars, i,
                   chunk_texts, results, j, attempt, translations, progress_value,
                   progress_maximum, out_exists, out_cues, calls, batches,
                   one_calls, failure>>
    /\ UNCHANGED <<progress_calls, workers>>

PlanNext == PlanChunk \/ PlanDone

PlanSpec == PlanInit /\ [][PlanNext]_vars

(*************************** the assembly alone ****************************)
\* a list of k translations, each different from the others
TrList(k) == [q \in 1..k |-> Zh(Letters(q))]

\* lines 399-403 entered with any number of translations
AssembleInit ==
    /\ pc = "returned"
    /\ engine \in Engines
    /\ openai_client = TRUE
    /\ segments \in SegmentLists \ {<<>>}
    /\ texts = originals_of(segments)
    /\ max_batch_chars = call_max_batch_chars
    /\ \E k \in 0..(Len(segments) + 1) : translations = TrList(k)
    /\ results = translations
    /\ progress_maximum = Len(segments)
    /\ i = 0
    /\ chunk_texts = <<>>
    /\ j = 0
    /\ attempt = 0
    /\ progress_value = 0
    /\ out_exists = FALSE
    /\ out_cues = <<>>
    /\ calls = 0
    /\ batches = <<>>
    /\ one_calls = <<>>
    /\ failure = ""
    /\ progress_calls = 0
    /\ workers = <<>>

AssembleNext == Assemble \/ WriteCue \/ Finish

AssembleSpec == AssembleInit /\ [][AssembleNext]_vars

(*************************** one cue's timestamps ***************************)
\* whole-millisecond times around the boundaries of every field
StampTimes ==
    {h * 3600000 + m * 60000 + sec * 1000 + f :
        h \in {0, 1, 99, MaxHours}, m \in {0, 1, 59}, sec \in {0, 1, 59},
        f \in {0, 1, 500, 999}}

\* lines 399-403 entered with one segment that starts at any of these times
StampInit ==
    /\ pc = "returned"
    /\ engine = "DeepL"
    /\ openai_client = FALSE
    /\ \E t \in StampTimes :
         segments = <<[start |-> t, end |-> t + SegDur, text |-> RawText(1)]>>
    /\ texts = originals_of(segments)
    /\ max_batch_chars = call_max_batch_chars
    /\ results = <<MarkNoDeepL>>
    /\ translations = results
    /\ progress_maximum = 1
    /\ i = 0
    /\ chunk_texts = <<>>
    /\ j = 0
    /\ attempt = 0
    /\ progress_value = 0
    /\ out_exists = FALSE
    /\ out_cues = <<>>
    /\ calls = 0
    /\ batches = <<>>
    /\ one_calls = <<>>
    /\ failure = ""
    /\ progress_calls = 0
    /\ workers = <<>>

\* write_srt_bilingual formats the start and the end of the segment
StampSpec == StampInit /\ [][AssembleNext]_vars

(************************ the worker threads ********************************)
(* The interactive thread and the threads it starts.  A worker is followed   *)
(* through what it does to the shared progress bar and through its requests *)
(* to the translation service; it runs the sequential backend (the batch     *)
(* backend differs in how many segments one response completes).             *)
NewWorker == [pc |-> "started", total |-> 0, done |-> 0, attempt |-> 0]

\* lines 420-424 and 413-415: a video is chosen and a thread started for it
StartCommand ==
    /\ Len(workers) < MaxStarts
    /\ workers' = Append(workers, NewWorker)
    /\ UNCHANGED <<pc, engine, openai_client, segments, texts, max_batch_chars, i,
                   chunk_texts, results, j, attempt, translations, progress_value,
                   progress_maximum, out_exists, out_cues, calls, batches,
                   one_calls, failure, progress_calls>>

\* lines 331-385 in worker w: the run ends early, or the segments are
\* recognised, the bar reset and its maximum set
WorkerRecognize(w) ==
    /\ w <= Len(workers)
    /\ workers[w].pc = "started"
    /\ \/ /\ workers' = [workers EXCEPT ![w].pc = "ended"]
          /\ UNCHANGED <<progress_value, progress_maximum>>
       \/ \E total \in 1..MaxSegs :
            /\ workers' = [workers EXCEPT ![w].pc = "translating",
                                          ![w].total = total]
            /\ progress_value' = 0
            /\ progress_maximum' = total
    /\ UNCHANGED <<pc, engine, openai_client, segments, texts, max_batch_chars, i,
                   chunk_texts, results, j, attempt, translations, out_exists,
                   out_cues, calls, batches, one_calls, failure, progress_calls>>

\* line 200 in worker w: a request is sent to the translation service
WorkerRequest(w) ==
    /\ w <= Len(workers)
    /\ workers[w].pc = "translating"
    /\ workers' = [workers EXCEPT ![w].pc = "in_flight"]
    /\ calls' = calls + 1
    /\ UNCHANGED <<pc, engine, openai_client, segments, texts, max_batch_chars, i,
                   chunk_texts, results, j, attempt, translations, progress_value,
                   progress_maximum, out_exists, out_cues, batches, one_calls,
                   failure, progress_calls>>

\* lines 201-210 in worker w: the request returns or raises
WorkerResponse(w) ==
    /\ w <= Len(workers)
    /\ workers[w].pc = "in_flight"
    /\ \E r \in DeeplResponses(<<>>) :
         LET o == deepl_step(r, <<>>, workers[w].attempt)
             done == workers[w].done + 1
         IN  IF o.returned
             THEN /\ workers' = [workers EXCEPT
                        ![w].pc = IF done = workers[w].total
                                  THEN "assembling" ELSE "translating",
                        ![w].done = done,
                        ![w].attempt = 0]
                  /\ progress_value' = clamp_progress(done, progress_maximum)
             ELSE /\ workers' = [workers EXCEPT ![w].pc = "translating",
                                               ![w].attempt = o.attempt]
                  /\ UNCHANGED progress_value
    /\ UNCHANGED <<pc, engine, openai_client, segments, texts, max_batch_chars, i,
                   chunk_texts, results, j, attempt, translations,
                   progress_maximum, out_exists, out_cues, calls, batches,
                   one_calls, failure, progress_calls>>

\* lines 399-411 in worker w: the file is written and the bar filled, or the
\* writing fails
WorkerFinish(w) ==
    /\ w <= Len(workers)
    /\ workers[w].pc = "assembling"
    /\ workers' = [workers EXCEPT ![w].pc = "ended"]
    /\ \/ progress_value' = progress_maximum
       \/ UNCHANGED progress_value
    /\ UNCHANGED <<pc, engine, openai_client, segments, texts, max_batch_chars, i,
                   chunk_texts, results, j, attempt, translations,
                   progress_maximum, out_exists, out_cues, calls, batches,
                   one_calls, failure, progress_calls>>

ThreadNext ==
    \/ StartCommand
    \/ \E w \in 1..MaxStarts : WorkerRecognize(w)
    \/ \E w \in 1..MaxStarts : WorkerRequest(w)
    \/ \E w \in 1..MaxStarts : WorkerResponse(w)
    \/ \E w \in 1..MaxStarts : WorkerFinish(w)

\* the window with its start button, and the threads started from it
ThreadSpec == Init /\ [][ThreadNext]_vars

(******************************** claims ***********************************)
RECURSIVE SumLens(_)
\* the total character count of a list of texts
SumLens(ts) == IF ts = <<>> THEN 0 ELSE Len(ts[1]) + SumLens(Tail(ts))

\* the input indices (0-based) a logged batch holds
IndicesOf(b) == [q \in 1..Len(b.texts) |-> b.first + q - 1]

RECURSIVE AllIndices(_)
\* the indices of a list of batches, concatenated in the order of the batches
AllIndices(bs) == IF bs = <<>> THEN <<>> ELSE IndicesOf(bs[1]) \o AllIndices(Tail(bs))

Oversized(b) == Len(b.texts) = 1 /\ Len(b.texts[1]) > max_batch_chars

\* C1: the batches formed so far, concatenated in the order they are formed,
\* hold the indices 0..i-1 once each in ascending order, each batch holds
\* exactly the texts at its indices, and planning ends with i = n: every
\* index 0..n-1 is in exactly one batch, none dropped, split or reordered.
C1_BatchesPartitionInput ==
    /\ i <= Len(texts)
    /\ AllIndices(batches) = [q \in 1..i |-> q - 1]
    /\ \A b \in 1..Len(batches) :
         batches[b].texts =
            [q \in 1..Len(batches[b].texts) |-> texts[batches[b].first + q]]
    /\ pc = "planned" => i = Len(texts)

\* a finished plan of three or more batches, one of them a lone oversized
\* text and one with several texts
C1_Witness ==
    /\ pc = "planned"
    /\ Len(batches) >= 3
    /\ \E b \in 1..Len(batches) : Oversized(batches[b])
    /\ \E b \in 1..Len(batches) : Len(batches[b].texts) >= 2

\* C2: every batch formed holds at least one and at most 20 texts, and its
\* character count is at most max_batch_chars unless it is a single text
\* that alone exceeds max_batch_chars.
C2_BatchWithinBudgets ==
    \A b \in 1..Len(batches) :
        /\ Len(batches[b].texts) >= 1
        /\ Len(batches[b].texts) <= 20
        /\ \/ SumLens(batches[b].texts) <= max_batch_chars
           \/ Oversized(batches[b])

\* a finished plan with a full batch of 20 non-empty texts followed by more
C2_Witness ==
    /\ pc = "planned"
    /\ Len(batches) >= 2
    /\ Len(batches[1].texts) = 20
    /\ SumLens(batches[1].texts) >= 20

\* a finished plan with a batch that fills a small budget exactly and a batch
\* of one oversized text
C2_WitnessBudget ==
    /\ pc = "planned"
    /\ \E b \in 1..Len(batches) :
         Len(batches[b].texts) >= 2 /\ SumLens(batches[b].texts) = max_batch_chars
    /\ \E b \in 1..Len(batches) : Oversized(batches[b])

RECURSIVE RejectedTexts(_)
\* the number of texts in the rejected batches of a list of batches
RejectedTexts(bs) ==
    IF bs = <<>> THEN 0
    ELSE (IF bs[1].accepted THEN 0 ELSE Len(bs[1].texts)) + RejectedTexts(Tail(bs))

RECURSIVE AcceptedTexts(_)
\* the number of texts in the accepted batches of a list of batches
AcceptedTexts(bs) ==
    IF bs = <<>> THEN 0
    ELSE (IF bs[1].accepted THEN Len(bs[1].texts) ELSE 0) + AcceptedTexts(Tail(bs))

RECURSIVE LoggedCalls(_)
\* the requests the finished per-segment translations of a log made
LoggedCalls(log) == IF log = <<>> THEN 0 ELSE log[1].calls + LoggedCalls(Tail(log))

\* the values the elements of a batch reply have
ReplyValues == {<<e>> : e \in ElemSet}

\* the texts of the rejected batches the fallback has finished so far
FallbackDone ==
    RejectedTexts(batches)
        - (IF pc = "gpt_fallback" THEN Len(chunk_texts) - j ELSE 0)

SomeRejected == \E b \in 1..Len(batches) : ~batches[b].accepted
SomeAccepted == \E b \in 1..Len(batches) : batches[b].accepted
SomeFailed == \E e \in 1..Len(one_calls) : one_calls[e].failed

\* C3: the list the active backend returns has exactly one element per input
\* text, whatever the service answered.
C3_ReturnsOnePerText ==
    pc = "returned" => (translations = results /\ Len(translations) = Len(texts))

\* the batch backend has returned after an accepted and a rejected batch
C3_Witness ==
    /\ pc = "returned"
    /\ engine = "ChatGPT"
    /\ SomeAccepted
    /\ SomeRejected

\* the sequential backend has returned with a segment that failed three times
C3_WitnessDeepl ==
    /\ pc = "returned"
    /\ engine = "DeepL"
    /\ Len(texts) >= 2
    /\ SomeFailed

\* C4: a batch reply is accepted only when the response carries a list of
\* exactly len(chunk_texts) elements; reply elements enter the results only
\* from accepted batches, and every text of a rejected batch goes through the
\* per-segment fallback.
C4_OnlyFullListAccepted ==
    /\ \A b \in 1..Len(batches) : batches[b].accepted => batches[b].listed
    /\ engine = "ChatGPT" =>
         /\ Cardinality({q \in 1..Len(results) : results[q] \in ReplyValues})
                = AcceptedTexts(batches)
         /\ Len(one_calls) = FallbackDone
         /\ pc = "returned" => Len(one_calls) = RejectedTexts(batches)

\* a rejected batch of two texts has been translated by the fallback
C4_Witness ==
    /\ pc = "returned"
    /\ Len(batches) = 1
    /\ ~batches[1].accepted
    /\ Len(batches[1].texts) = 2
    /\ Len(one_calls) = 2

\* what _translate_single_retry can return for a text
IsOutcomeFor(ret, text) == ret \in {Zh(text), <<>>, failure_result(text)}

\* C5: the fallback of a rejected batch translates its texts once each, in
\* batch order, and the element at every position of the results is the
\* outcome for the input text at that position: the reply element of its
\* place in an accepted batch, or what the per-segment translation of that
\* text returned.
C5_ResultsInInputOrder ==
    engine = "ChatGPT" =>
      /\ Len(results) = AcceptedTexts(batches) + Len(one_calls)
      /\ pc = "returned" => Len(results) = Len(texts)
      /\ \A b \in 1..Len(batches) :
           LET B == batches[b]
               off == RejectedTexts(SubSeq(batches, 1, b - 1))
           IN  \A q \in 1..Len(B.texts) :
                 LET pos == B.first + q
                 IN  (B.accepted \/ off + q <= Len(one_calls)) =>
                       /\ pos <= Len(results)
                       /\ IF B.accepted
                          THEN results[pos] = <<ElemToks[q]>>
                          ELSE /\ one_calls[off + q].text = texts[pos]
                               /\ results[pos] = one_calls[off + q].ret
                               /\ IsOutcomeFor(results[pos], texts[pos])

\* a rejected batch of two different texts, translated with different
\* outcomes, then returned
C5_Witness ==
    /\ pc = "returned"
    /\ engine = "ChatGPT"
    /\ Len(batches) = 1
    /\ Len(one_calls) = 2
    /\ texts[1] # texts[2]
    /\ results[1] = failure_result(texts[1])
    /\ results[2] = Zh(texts[2])

\* a rejected batch followed by an accepted one
C5_WitnessSplice ==
    /\ pc = "returned"
    /\ Len(batches) = 2
    /\ ~batches[1].accepted
    /\ batches[2].accepted

\* C6: a per-segment translation whose every request failed made exactly 3
\* requests and returned the failure marker followed by the original text,
\* under the fallback and under the sequential backend; the requests logged
\* are the requests made.
C6_ThreeRequestsThenMarker ==
    /\ \A e \in 1..Len(one_calls) :
         one_calls[e].failed =>
            /\ one_calls[e].calls = 3
            /\ one_calls[e].ret = MarkFailed \o one_calls[e].text
    /\ calls = Len(batches) + LoggedCalls(one_calls) + attempt

\* the fallback gave up on a non-empty text
C6_Witness ==
    /\ engine = "ChatGPT"
    /\ \E e \in 1..Len(one_calls) :
         one_calls[e].failed /\ one_calls[e].text # <<>>

\* the sequential backend gave up on a non-empty text
C6_WitnessDeepl ==
    /\ engine = "DeepL"
    /\ \E e \in 1..Len(one_calls) :
         one_calls[e].failed /\ one_calls[e].text # <<>>

\* C7: a per-segment translation of the batch backend never returns the
\* empty string: an empty answer counts as a failed attempt, so only the
\* failure marker or a non-empty translation is returned.
C7_NeverReturnsEmpty ==
    engine = "ChatGPT" =>
        \A e \in 1..Len(one_calls) : one_calls[e].ret # <<>>

TranslatingPcs == {"gpt_loop", "gpt_fallback", "deepl_loop"}

\* a step out of translating stays in translating or returns to assembling
TranslatingNeverFails ==
    [][(pc \in TranslatingPcs) => (pc' \in TranslatingPcs \/ pc' = "returned")]_vars

\* a run that translates ends done, unless writing the file fails
TranslatingCompletes ==
    (pc \in TranslatingPcs) ~> (pc = "done" \/ failure = "write")

\* the positions from the first translation request to the end of the run
ActivePcs == TranslatingPcs \cup {"returned", "write"}

\* the steps a run can still take: per text still without a result one batch
\* request and 3 per-segment requests, less those already spent on the text
\* in hand, then the padding, one step per cue and the closing of the file
RunRank ==
    IF pc \in TranslatingPcs
    THEN Len(texts) + 3 + 4 * (Len(texts) - Len(results))
            - (IF pc = "gpt_fallback" THEN 1 + attempt
               ELSE IF pc = "deepl_loop" THEN attempt ELSE 0)
    ELSE IF pc = "returned" THEN Len(texts) + 2
    ELSE IF pc = "write" THEN Len(segments) - Len(out_cues) + 1
    ELSE 0

\* every step of a run that has begun to translate brings it nearer its end,
\* and the only failure it can end in is a failure to write the file
RunAdvances ==
    [][(pc \in ActivePcs) =>
            /\ RunRank' < RunRank
            /\ RunRank' >= 0
            /\ (pc' \in ActivePcs \/ pc' = "done"
                    \/ (pc' = "failed" /\ failure' = "write"))]_vars

\* a run never stops before it has ended: whenever a step leaves it at a
\* position of the loops or of the writing, the step of that position can
\* be taken (a text is left for the request, a cue or the closing for the
\* file)
RunNeverStuck ==
    [][/\ (pc' = "gpt_loop" => i' < Len(texts'))
       /\ (pc' = "gpt_fallback" => j' < Len(chunk_texts'))
       /\ (pc' = "deepl_loop" => i' < Len(texts'))
       /\ (pc' = "write" => Len(out_cues') <= zip_len(segments', translations'))]_vars

\* C8: no answer or exception of the translation service takes a run from
\* translating to the failed state: the run stays in translating until it
\* returns to assembling, every step brings it nearer its end, it never
\* stops before, and it ends done unless writing the file fails.
C8_TranslationErrorsAbsorbed ==
    TranslatingNeverFails /\ RunAdvances /\ RunNeverStuck

\* a run is done although a batch was rejected and a segment failed for good
C8_Witness ==
    /\ pc = "done"
    /\ SomeRejected
    /\ SomeFailed

(* the time in milliseconds a timestamp HH:MM:SS,mmm reads as *)
DigitVal(c) == CHOOSE d \in 0..9 : DigitToks[d + 1] = c

RECURSIVE NumOf(_)
NumOf(s) ==
    IF s = <<>> THEN 0
    ELSE NumOf(SubSeq(s, 1, Len(s) - 1)) * 10 + DigitVal(s[Len(s)])

IsDigits(s) == \A p \in 1..Len(s) : \E d \in 0..9 : DigitToks[d + 1] = s[p]

WellFormedTs(ts) ==
    LET n == Len(ts)
    IN  /\ n >= 12
        /\ ts[n - 3] = ","
        /\ ts[n - 6] = ":"
        /\ ts[n - 9] = ":"
        /\ IsDigits(SubSeq(ts, 1, n - 10))
        /\ IsDigits(SubSeq(ts, n - 8, n - 7))
        /\ IsDigits(SubSeq(ts, n - 5, n - 4))
        /\ IsDigits(SubSeq(ts, n - 2, n))

MillisOf(ts) ==
    LET n == Len(ts)
    IN  NumOf(SubSeq(ts, 1, n - 10)) * 3600000
            + NumOf(SubSeq(ts, n - 8, n - 7)) * 60000
            + NumOf(SubSeq(ts, n - 5, n - 4)) * 1000
            + NumOf(SubSeq(ts, n - 2, n))

\* C9: a written document has exactly len(segments) cues; cue q is numbered
\* q, reads the start and end time of segment q, holds its stripped text and
\* translation q, or the failure marker where fewer translations than
\* segments were supplied.
C9_OneCuePerSegment ==
    pc = "done" =>
      /\ segments # <<>>
      /\ out_exists
      /\ Len(out_cues) = Len(segments)
      /\ \A q \in 1..Len(out_cues) :
           /\ q <= Len(segments)
           /\ out_cues[q].idx = q
           /\ WellFormedTs(out_cues[q].start)
           /\ WellFormedTs(out_cues[q].end)
           /\ MillisOf(out_cues[q].start) = segments[q].start
           /\ MillisOf(out_cues[q].end) = segments[q].end
           /\ out_cues[q].orig = texts[q]
           /\ out_cues[q].zh = IF q <= Len(results) THEN results[q] ELSE MarkFailed

\* a document is written for two segments and a single translation
C9_Witness ==
    /\ pc = "done"
    /\ Len(segments) = 2
    /\ Len(results) = 1
    /\ Len(out_cues) = 2

\* C10: a recognition that yields no segment ends the run with the
\* empty-result status: nothing follows it, no request has been made to the
\* translation service and no output file exists; and no run goes past the
\* recognition with an empty segment list.
C10_EmptyRecognitionStops ==
    /\ pc = "empty" =>
         /\ segments = <<>>
         /\ calls = 0
         /\ ~out_exists
         /\ ~ENABLED Next
    /\ (segments = <<>> /\ pc \notin {"idle", "prepare", "unconfigured", "aborted", "failed"})
         => pc = "empty"

\* the run has ended with the empty-result status
C10_Witness == pc = "empty" /\ segments = <<>> /\ engine = "ChatGPT"

\* the positions a run ends in
TerminalPcs == {"done", "failed", "empty", "unconfigured", "aborted"}

\* C11: in every terminal state of a run the output file holds all
\* len(segments) cues or does not exist; a write error part-way through the
\* assembling never leaves a file with only some of the cues.
C11_OutputCompleteOrAbsent ==
    pc \in TerminalPcs => (~out_exists \/ Len(out_cues) = Len(segments))

\* the positions of a run from the setting of total (line 383) to its end
CountingPcs == {"recognized"} \cup ActivePcs

\* C12: within one run, from the start of translating to the end of the run,
\* the progress value never decreases and never exceeds total, the number of
\* segments, under either backend and whatever the service answers.
C12_ProgressMonotoneBounded ==
    [][(pc \in CountingPcs) =>
            /\ progress_value' >= progress_value
            /\ progress_value <= Len(segments)
            /\ progress_value' <= Len(segments')
            /\ progress_maximum' = Len(segments')]_vars

\* the sequential backend is on the third request for the second of two
\* segments, the first of which failed for good
C12_Witness ==
    /\ pc = "deepl_loop"
    /\ Len(segments) = 2
    /\ progress_value = 1
    /\ attempt = 2
    /\ SomeFailed

\* C13: progress is advanced exactly once per batch the batch backend has
\* completed, also when the batch went through the per-segment fallback, and
\* exactly once per segment the loop of the sequential backend has completed;
\* after each update the progress value is the number of segments whose
\* result has been produced so far.
C13_ProgressOncePerUnit ==
    /\ (engine = "ChatGPT" /\ pc \in {"gpt_loop", "gpt_fallback", "returned"}) =>
         /\ progress_calls = Len(batches) - (IF pc = "gpt_fallback" THEN 1 ELSE 0)
         /\ progress_value = Len(results) - (IF pc = "gpt_fallback" THEN j ELSE 0)
         /\ pc # "gpt_fallback" => Len(results) = i
    /\ (engine = "DeepL" /\ pc \in {"deepl_loop", "returned"}) =>
         /\ progress_calls = i
         /\ progress_value = i
         /\ (pc = "deepl_loop" \/ i = Len(texts)) => Len(results) = i

\* a rejected batch of two texts went through the fallback, which needed
\* more than one request per text, and the progress was advanced once, to 2
C13_Witness ==
    /\ engine = "ChatGPT"
    /\ pc = "returned"
    /\ Len(batches) = 1
    /\ Len(one_calls) = 2
    /\ calls >= 5
    /\ progress_calls = 1
    /\ progress_value = 2

\* the sequential backend has completed two segments with four requests
C13_WitnessDeepl ==
    /\ engine = "DeepL"
    /\ pc = "returned"
    /\ calls = 4
    /\ progress_calls = 2
    /\ progress_value = 2

\* C18: whenever a run is done the progress value equals total, the number
\* of segments; under the batch backend it equals total already when the
\* last batch has completed, whatever batches were accepted or went through
\* the fallback.
C18_ProgressFullAtDone ==
    /\ pc = "done" =>
         /\ progress_value = Len(segments)
         /\ progress_maximum = Len(segments)
    /\ (engine = "ChatGPT" /\ pc \in {"returned", "write"}) =>
         /\ Len(results) = Len(segments)
         /\ progress_value = Len(segments)

\* the batch backend has returned after an accepted batch and a last batch
\* that went through the fallback, and the file is not yet written
C18_Witness ==
    /\ engine = "ChatGPT"
    /\ pc = "returned"
    /\ Len(batches) = 2
    /\ batches[1].accepted
    /\ ~batches[2].accepted
    /\ progress_value = 2

\* a run of the sequential backend whose client could not be set up again at
\* line 187 is done
C18_WitnessDone ==
    /\ engine = "DeepL"
    /\ pc = "done"
    /\ progress_calls = 0
    /\ Len(segments) = 2

\* the workers that are executing the translate-assemble sequence
ExecutingWorkers ==
    {w \in 1..Len(workers) :
        workers[w].pc \in {"translating", "in_flight", "assembling"}}

\* the workers with a request to the translation service in flight
InFlightWorkers == {w \in 1..Len(workers) : workers[w].pc = "in_flight"}

\* C14: the progress counter has a single writer: whatever start commands
\* the interactive thread issues, at most one worker at a time is executing
\* the sequence and writing the progress counter, and at most one request
\* to the translation service is in flight.
C14_SingleWriter ==
    /\ Cardinality(ExecutingWorkers) <= 1
    /\ Cardinality(InFlightWorkers) <= 1

\* the reading of the fields of a timestamp
HoursOf(ts) == NumOf(SubSeq(ts, 1, Len(ts) - 10))
MinutesOf(ts) == NumOf(SubSeq(ts, Len(ts) - 8, Len(ts) - 7))
SecondsOf(ts) == NumOf(SubSeq(ts, Len(ts) - 5, Len(ts) - 4))
FractionOf(ts) == NumOf(SubSeq(ts, Len(ts) - 2, Len(ts)))

\* ts is HH:MM:SS,mmm for the time of ms milliseconds
StampsTime(ts, ms) ==
    /\ WellFormedTs(ts)
    /\ MinutesOf(ts) \in 0..59
    /\ SecondsOf(ts) \in 0..59
    /\ FractionOf(ts) \in 0..999
    /\ HoursOf(ts) * 3600000 + MinutesOf(ts) * 60000 + SecondsOf(ts) * 1000
            + FractionOf(ts) = ms
    /\ ms < 100 * 3600000 => Len(ts) = 12

\* C15: format_timestamp, for every time of a whole number of milliseconds,
\* yields HH:MM:SS,mmm with a comma, minutes and seconds in 00..59 and
\* milliseconds in 000..999, whose fields add up to the time; 0.0 yields
\* 00:00:00,000 and 3661.5 yields 01:01:01,500.
C15_TimestampReadsBack ==
    \A q \in 1..Len(out_cues) :
        /\ StampsTime(out_cues[q].start, segments[q].start)
        /\ StampsTime(out_cues[q].end, segments[q].end)
        /\ segments[q].start = 0 =>
             out_cues[q].start
                = <<"0", "0", ":", "0", "0", ":", "0", "0", ",", "0", "0", "0">>
        /\ segments[q].start = 3661500 =>
             out_cues[q].start
                = <<"0", "1", ":", "0", "1", ":", "0", "1", ",", "5", "0", "0">>

\* the cue of a segment that starts at 3661.5 s is written
C15_Witness ==
    /\ pc = "done"
    /\ Len(out_cues) = 1
    /\ segments[1].start = 3661500

\* the cue of a segment that starts in the last millisecond of an hour, and
\* ends in the next hour, is written
C15_WitnessCarry ==
    /\ pc = "done"
    /\ Len(out_cues) = 1
    /\ segments[1].start = 99 * 3600000 + 59 * 60000 + 59 * 1000 + 999
    /\ HoursOf(out_cues[1].end) = 100

\* res is left as it was at the front of res2
KeepsFront(res, res2) ==
    Len(res2) >= Len(res) /\ SubSeq(res2, 1, Len(res)) = res

\* a step of the per-segment fallback leaves the results produced so far
\* unchanged, adds at most the result of one text of the batch in hand, and
\* ends in the loop again when texts are left
FallbackKeepsEarlier ==
    [][(pc = "gpt_fallback") =>
            /\ KeepsFront(results, results')
            /\ Len(results') <= Len(results) + 1
            /\ Len(results') <= i
            /\ batches' = batches
            /\ i' = i
            /\ \/ pc' = "gpt_fallback" /\ Len(results') < i
               \/ pc' = "gpt_loop" /\ Len(results') = i /\ i < Len(texts)
               \/ pc' = "returned" /\ Len(results') = i /\ i = Len(texts)]_vars

\* every pass of the loop, also after a rejected batch, sends the texts from
\* index i on as one batch request
LaterBatchesBatched ==
    [][(pc = "gpt_loop") =>
            /\ Len(batches') = Len(batches) + 1
            /\ batches'[Len(batches')].first = i
            /\ Len(batches'[Len(batches')].texts) = i' - i
            /\ i' > i
            /\ calls' = calls + 1
            /\ one_calls' = one_calls
            /\ KeepsFront(results, results')]_vars

\* when the batch backend has returned, every text was sent in a batch
\* request, and only the texts of the rejected batches were translated one
\* by one
EveryTextBatched ==
    (engine = "ChatGPT" /\ pc = "returned") =>
        /\ AllIndices(batches) = [q \in 1..Len(texts) |-> q - 1]
        /\ Len(one_calls) = RejectedTexts(batches)

\* C16: a failed batch affects only that batch: the fallback leaves the
\* result elements of earlier batches unchanged, and every later batch is
\* still sent as one batch request; the run does not go over to per-segment
\* requests for the remaining batches.
C16_FailedBatchContained ==
    FallbackKeepsEarlier /\ LaterBatchesBatched /\ []EveryTextBatched

\* a batch was rejected, a text failed for good in the fallback, and the
\* batch after the rejected one was sent as a batch and accepted
C16_Witness ==
    /\ engine = "ChatGPT"
    /\ Len(batches) >= 2
    /\ \E b \in 1..(Len(batches) - 1) :
         /\ ~batches[b].accepted
         /\ batches[b + 1].accepted
    /\ SomeFailed
    /\ pc = "returned"

\* the requests made stay within one per batch and 3 per segment under the
\* batch backend, and within 3 per segment under the sequential backend
CallsWithinBound ==
    /\ engine = "ChatGPT" => calls <= Len(batches) + Len(texts) * 3
    /\ engine = "DeepL" => calls <= Len(texts) * 3
    /\ Len(batches) <= Len(texts)

\* every pass of the batching loop consumes at least one segment
LoopConsumes == [][(pc = "gpt_loop") => i' > i]_vars

\* every run ends
RunEnds == <>(pc \in TerminalPcs)

\* C17: as every request returns or raises, every started run reaches a
\* terminal state; each pass of the batching loop consumes at least one
\* segment, and the requests made for n segments are at most the number of
\* batches + 3 n under the batch backend and at most 3 n under the
\* sequential backend.
C17_EndsWithinCallBound == RunEnds /\ LoopConsumes /\ []CallsWithinBound

\* a run of the batch backend is done after every batch was rejected and
\* every per-segment request failed: the bound on the requests is reached
C17_Witness ==
    /\ pc = "done"
    /\ engine = "ChatGPT"
    /\ Len(texts) = 2
    /\ Len(batches) = 2
    /\ calls = Len(batches) + Len(texts) * 3

\* a run of the sequential backend is done after 3 failed requests for each
\* of two segments
C17_WitnessDeepl ==
    /\ pc = "done"
    /\ engine = "DeepL"
    /\ Len(texts) = 2
    /\ calls = 6

====
